---- MODULE Spec2Model ----
(***************************************************************************)
(* A model of the osm-pbf reader: the primitive iterator of a primitive    *)
(* block (proto/src/primitives.rs), the tag iterator over the string table *)
(* (proto/src/primitives.rs) and the blob frame reader                     *)
(* (reader/src/blob.rs).                                                   *)
(*                                                                         *)
(* Sequences of the source are 0-based, TLA+ sequences are 1-based: the    *)
(* element the source calls v[i] is v[i + 1] here.                         *)
(***************************************************************************)
EXTENDS Integers, Sequences, FiniteSets, TLC

VARIABLES
    block,        \* PrimitivesIter.block: the primitive block iterated
    filter,       \* PrimitivesIter.filter: the PrimitiveType bits
    group_pos,    \* PrimitivesIter.group_pos
    prim_pos,     \* PrimitivesIter.prim_pos
    dense_state,  \* PrimitivesIter.dense_state
    pc,           \* where the caller of PrimitivesIter::next stands
    last,         \* what the last call of PrimitivesIter::next returned
    out,          \* every primitive returned so far, in order
    none_count,   \* how many calls have returned None
    tags_s,       \* Tags.s: the string table of the block
    tags_src,     \* the keys and vals, or the kv_pairs slice, a Tags was made from
    tags_kv,      \* Tags.kv: the slice iterators, as what each has left
    tags_out,     \* every pair Tags::next has returned so far, in order
    tags_last,    \* the last call on the Tags, next or get, and what it returned
    source,       \* the byte source of a Blobs reader, as the frames it holds
    rd_pos,       \* how many frames of the source the reader has consumed
    rd_state,     \* "unopened", "open" once from_buf_read has returned Ok, "failed"
    rd_last,      \* the last call on the reader and what it returned
    lazy,         \* a Blob<M>: Encoded with its data, Decoded with its message
    lazy_ret,     \* what the last decode or decode_into of the Blob returned
    lazy_work,    \* how many times the data of the Blob has been parsed
    lazy_calls,   \* how many times decode has been called on the Blob
    mem_strings,  \* Members.strings: the string table
    mem_src,      \* the roles_sid, memids and types of the relation
    mem_it,       \* Members.roles, member_ids, member_types: what each has left
    mem_out,      \* every member Members::next has returned so far, in order
    mem_last,     \* what the last call of Members::next returned
    info_ret      \* the node NodeRef::info was last called on and what it returned

iter_vars == <<block, filter, group_pos, prim_pos, dense_state, pc, last, out, none_count>>

tags_vars == <<tags_s, tags_src, tags_kv, tags_out, tags_last>>

blobs_vars == <<source, rd_pos, rd_state, rd_last>>

lazy_vars == <<lazy, lazy_ret, lazy_work, lazy_calls>>

members_vars == <<mem_strings, mem_src, mem_it, mem_out, mem_last>>

vars == <<iter_vars, tags_vars, blobs_vars, lazy_vars, members_vars, info_ret>>

\* the variables of the other parts of the model
beside_iter == <<tags_vars, blobs_vars, lazy_vars, members_vars>>
beside_tags == <<iter_vars, blobs_vars, lazy_vars, members_vars, info_ret>>
beside_blobs == <<iter_vars, tags_vars, lazy_vars, members_vars, info_ret>>
beside_lazy == <<iter_vars, tags_vars, blobs_vars, members_vars, info_ret>>
beside_members == <<iter_vars, tags_vars, blobs_vars, lazy_vars, info_ret>>

-----------------------------------------------------------------------------
(* Bounds of the model.                                                    *)

\* the largest number of primitive groups of a block
MaxGroups == 2
\* the largest number of entities a block of the shape family stores
MaxEntities == 2
\* the largest number of entries of the dense arrays of the dense family
MaxDense == 2
\* the largest length of a keys_vals stream of the dense family
MaxKeysVals == 3
\* how many times next is called again after it has returned None
MaxNone == 2
\* the largest number of tags of an entity
MaxTags == 2
\* the largest number of complete frames of a byte source
MaxFrames == 2

\* calls of decode on one Blob
MaxDecodes == 4

\* entries of roles_sid, of memids and of types of a relation
MaxMembers == 2

-----------------------------------------------------------------------------
(* Generic helpers.                                                        *)

\* slice.get(i) of a 0-based index: whether it is Some
Has(seq, i) == i >= 0 /\ i < Len(seq)

\* slice.get(i) of a 0-based index, when it is Some
At(seq, i) == seq[i + 1]

Min(a, b) == IF a <= b THEN a ELSE b

RECURSIVE SumTo(_, _)
\* seq[0] + ... + seq[n - 1]
SumTo(seq, n) == IF n <= 0 THEN 0 ELSE SumTo(seq, n - 1) + seq[n]

RECURSIVE SeqsUpTo(_, _)
\* every sequence over S of length at most n
SeqsUpTo(S, n) ==
    IF n = 0 THEN {<<>>}
    ELSE LET shorter == SeqsUpTo(S, n - 1)
         IN shorter \cup {Append(q, x) : q \in {r \in shorter : Len(r) = n - 1}, x \in S}

RECURSIVE IsSubseq(_, _)
\* a is a subsequence of b: a is b with some elements left out, order kept
IsSubseq(a, b) ==
    IF a = <<>> THEN TRUE
    ELSE IF b = <<>> THEN FALSE
    ELSE IF Head(a) = Head(b) THEN IsSubseq(Tail(a), Tail(b))
    ELSE IsSubseq(a, Tail(b))

IsPrefix(a, b) == Len(a) <= Len(b) /\ SubSeq(b, 1, Len(a)) = a

\* a cast of an i32 with `as usize`: a negative i32 wraps to 2^64 + i, past every
\* length and limit; the largest integers of the model checker stand for it
AsUsize(i) == IF i < 0 THEN i + 2147483647 ELSE i

-----------------------------------------------------------------------------
(* PrimitiveType: the bitflags of the type filter.                         *)

NODE == 1
WAY == 2
RELATION == 4
CHANGE_SET == 8
DEFAULT == NODE + WAY + RELATION
ALL == NODE + WAY + RELATION + CHANGE_SET

\* bitflags contains() for a single-bit flag: bits & flag == flag
Contains(bits, flag) == (bits \div flag) % 2 = 1

\* every bit of f1 is a bit of f2
FilterSubset(f1, f2) ==
    \A flag \in {NODE, WAY, RELATION, CHANGE_SET} : Contains(f1, flag) => Contains(f2, flag)

Filters == 0..ALL

-----------------------------------------------------------------------------
(* The blocks the iterator is run on.                                      *)

\* a MessageField<DenseNodes> that is None: its fields read as the default instance
NoDense == [is_some |-> FALSE, id |-> <<>>, lat |-> <<>>, lon |-> <<>>, keys_vals |-> <<>>]

MkNode(i) == [id |-> 100 + i, lat |-> 3 * i + 1, lon |-> -(2 * i) - 1]
MkWay(i) == [id |-> 200 + i]
MkRelation(i) == [id |-> 300 + i]
MkChangeSet(i) == [id |-> 400 + i]

\* a valid dense group of n nodes without tags: one terminator per node
MkDense(n) ==
    [is_some |-> TRUE,
     id |-> [i \in 1..n |-> IF i = 1 THEN 10 ELSE 5],
     lat |-> [i \in 1..n |-> IF i = 1 THEN 1000 ELSE IF i = 2 THEN 100 ELSE -50],
     lon |-> [i \in 1..n |-> IF i = 1 THEN 2000 ELSE 0],
     keys_vals |-> [i \in 1..n |-> 0]]

MkGroup(n, dense, w, r, c) ==
    [nodes |-> [i \in 1..n |-> MkNode(i)],
     dense |-> dense,
     ways |-> [i \in 1..w |-> MkWay(i)],
     relations |-> [i \in 1..r |-> MkRelation(i)],
     changesets |-> [i \in 1..c |-> MkChangeSet(i)]]

\* the number of entities a group stores
GroupSize(g) ==
    Len(g.nodes) + Len(g.dense.id) + Len(g.ways) + Len(g.relations) + Len(g.changesets)

RECURSIVE BlockSize(_)
BlockSize(groups) ==
    IF groups = <<>> THEN 0 ELSE GroupSize(Head(groups)) + BlockSize(Tail(groups))

\* the groups of any mix of categories that store at most b entities
ShapeGroups(b) ==
    {MkGroup(n, d, w, r, c) :
        n \in 0..b, d \in {NoDense} \cup {MkDense(k) : k \in 0..b},
        w \in 0..b, r \in 0..b, c \in 0..b}

RECURSIVE ShapeGroupSeqs(_, _)
\* the sequences of at most k groups that store at most b entities in total
ShapeGroupSeqs(k, b) ==
    IF k = 0 THEN {<<>>}
    ELSE {<<>>} \cup
         UNION {{<<g>> \o rest : rest \in ShapeGroupSeqs(k - 1, b - GroupSize(g))} :
                    g \in {h \in ShapeGroups(b) : GroupSize(h) <= b}}

\* granularity, lat_offset and lon_offset of a block
Scales ==
    {[granularity |-> 100, lat_offset |-> 0, lon_offset |-> 0],
     [granularity |-> 1, lat_offset |-> 7, lon_offset |-> -3],
     [granularity |-> -2, lat_offset |-> 0, lon_offset |-> 4],
     [granularity |-> 0, lat_offset |-> 5, lon_offset |-> 0]}

DefaultScale == [granularity |-> 100, lat_offset |-> 0, lon_offset |-> 0]

MkBlock(groups, scale) ==
    [primitivegroup |-> groups,
     granularity |-> scale.granularity,
     lat_offset |-> scale.lat_offset,
     lon_offset |-> scale.lon_offset]

\* the shape family: any mix of categories per group, fixed contents
ShapeBlocks == {MkBlock(gs, DefaultScale) : gs \in ShapeGroupSeqs(MaxGroups, MaxEntities)}

\* one delta entry of the parallel dense arrays: <<id, lat, lon>>
DenseDeltas == {<<10, 1000, 2000>>, <<5, -50, 0>>}

\* the dense groups whose arrays and keys_vals stream are drawn freely
DenseGroups ==
    {[nodes |-> <<>>,
      dense |-> [is_some |-> TRUE,
                 id |-> [i \in 1..Len(d) |-> d[i][1]],
                 lat |-> [i \in 1..Len(d) |-> d[i][2]],
                 lon |-> [i \in 1..Len(d) |-> d[i][3]],
                 keys_vals |-> kv],
      ways |-> <<>>, relations |-> <<>>, changesets |-> <<>>] :
        d \in SeqsUpTo(DenseDeltas, MaxDense), kv \in SeqsUpTo({0, 1}, MaxKeysVals)}

\* the groups that may stand before the dense group of the dense family
LeadGroups ==
    {<<>>, <<MkGroup(0, NoDense, 1, 0, 0)>>, <<MkGroup(1, NoDense, 0, 0, 0)>>,
     <<MkGroup(0, MkDense(1), 0, 0, 0)>>}

\* the dense family: a dense group, alone or after another group
DenseBlocks ==
    {MkBlock(lead \o <<g>>, DefaultScale) : lead \in LeadGroups, g \in DenseGroups}

\* the nodes whose id, lat and lon are drawn freely
NodeValues ==
    {[id |-> 1, lat |-> 500, lon |-> -1000], [id |-> -2, lat |-> -7, lon |-> 0],
     [id |-> 3, lat |-> 0, lon |-> 9]}

\* the scale family: a group of nodes, or of dense nodes, under every scale
ScaleBlocks ==
    {MkBlock(<<g>>, scale) :
        g \in {[MkGroup(0, NoDense, 0, 0, 0) EXCEPT !.nodes = ns] :
                    ns \in SeqsUpTo(NodeValues, MaxEntities) \ {<<>>}}
               \cup {MkGroup(0, MkDense(k), 0, 0, 0) : k \in 1..MaxDense},
        scale \in Scales}

Blocks == ShapeBlocks \cup DenseBlocks \cup ScaleBlocks

-----------------------------------------------------------------------------
(* PrimitivesIter: the state and what next returns.                        *)

\* DenseState::default()
DenseStateDefault == [id |-> 0, lat |-> 0, lon |-> 0, kv_pos |-> 0]

NotCalled == [tag |-> "NotCalled"]
RetNone == [tag |-> "None"]
RetSome(p) == [tag |-> "Some", value |-> p]
RetPanic == [tag |-> "Panic"]

\* NodeRef::from_node; the borrowed keys, vals and info are named by the node's place
from_node(index, node, g, blk) ==
    [kind |-> "Node",
     id |-> node.id,
     nano_lat |-> blk.lat_offset + node.lat * blk.granularity,
     nano_lon |-> blk.lon_offset + node.lon * blk.granularity,
     index |-> index,
     data |-> [layout |-> "Node", group |-> g, kv_pairs |-> <<>>]]

\* a from_dense_node that scales the longitude for the latitude and back
from_dense_node_swapped(index, ds, kv_pairs, g, blk) ==
    [kind |-> "Node",
     id |-> ds.id,
     nano_lat |-> blk.lat_offset + ds.lon * blk.granularity,
     nano_lon |-> blk.lon_offset + ds.lat * blk.granularity,
     index |-> index,
     data |-> [layout |-> "DenseNode", group |-> g, kv_pairs |-> kv_pairs]]

\* NodeRef::from_dense_node; the borrowed denseinfo is named by the group's place
from_dense_node(index, ds, kv_pairs, g, blk) ==
    [kind |-> "Node",
     id |-> ds.id,
     nano_lat |-> blk.lat_offset + ds.lat * blk.granularity,
     nano_lon |-> blk.lon_offset + ds.lon * blk.granularity,
     index |-> index,
     data |-> [layout |-> "DenseNode", group |-> g, kv_pairs |-> kv_pairs]]

\* a PrimitiveRef to a way, relation or changeset: the borrowed value is named by its place
PrimitiveRef(kind, g, index, value) ==
    [kind |-> kind, id |-> value.id, index |-> index,
     data |-> [layout |-> kind, group |-> g, kv_pairs |-> <<>>]]

\* the dense state after the deltas of one dense node are added
DenseAdd(ds, id, lat, lon) ==
    [ds EXCEPT !.id = ds.id + id, !.lat = ds.lat + lat, !.lon = ds.lon + lon]

RECURSIVE ScanKeyVals(_, _)
\* the while loop over keys_vals: where kv_pos stands when keys_vals.get(kv_pos) is None
ScanKeyVals(keys_vals, kv_pos) ==
    IF Has(keys_vals, kv_pos)
    THEN IF At(keys_vals, kv_pos) = 0
         THEN ScanKeyVals(keys_vals, kv_pos + 1)
         ELSE ScanKeyVals(keys_vals, kv_pos + 2)
    ELSE kv_pos

\* whether &keys_vals[from..to] lies in the slice; it panics when not
SliceInRange(seq, from, to) == from <= to /\ to <= Len(seq)

\* &keys_vals[from..to]
Slice(seq, from, to) == SubSeq(seq, from + 1, to)

\* the part of PrimitivesIter that next changes
IterState(gp, pp, ds) == [group_pos |-> gp, prim_pos |-> pp, dense_state |-> ds]

\* what one pass of the loop of next does: the state it leaves and whether it returns
Returns(s, ret) == [s |-> s, ret |-> ret]
Continues(s) == [s |-> s, ret |-> [tag |-> "Continue"]]

\* a next that starts over from the first group once it has returned None
ExhaustedRestart(s) == Returns([s EXCEPT !.group_pos = 0, !.prim_pos = 0], RetNone)

\* let group = self.groups.get(self.group_pos)?  when there is no such group
Exhausted(s) == Returns(s, RetNone)

\* around the loop again without the self.group_pos += 1
AdvanceGroupStays(s) == Continues(s)

\* self.group_pos += 1, and around the loop again
AdvanceGroup(s) == Continues([s EXCEPT !.group_pos = s.group_pos + 1])

\* which arm of the if / else-if chain a group takes under a filter
Branch(g, f) ==
    IF Contains(f, NODE) /\ g.nodes # <<>> THEN "nodes"
    ELSE IF Contains(f, NODE) /\ g.dense.is_some THEN "dense"
    ELSE IF Contains(f, WAY) /\ g.ways # <<>> THEN "ways"
    ELSE IF Contains(f, RELATION) /\ g.relations # <<>> THEN "relations"
    ELSE IF Contains(f, CHANGE_SET) /\ g.changesets # <<>> THEN "changesets"
    ELSE "none"

\* the arm of the non-dense nodes
NodesArm(blk, g, s) ==
    LET index == s.prim_pos
    IN IF Has(g.nodes, index)
       THEN Returns([s EXCEPT !.prim_pos = index + 1],
                    RetSome(from_node(index, At(g.nodes, index), s.group_pos, blk)))
       ELSE AdvanceGroup(s)

\* a dense arm that leaves the sums and the cursor as the group ended with them
ResetDenseSkipped(s) == s

\* self.dense_state = Default::default()
ResetDense(s) == [s EXCEPT !.dense_state = DenseStateDefault]

\* the arm of the dense nodes
DenseArm(blk, g, s) ==
    LET dense == g.dense
        index == s.prim_pos
    IN IF Has(dense.id, index) /\ Has(dense.lat, index) /\ Has(dense.lon, index)
       THEN LET added == DenseAdd(s.dense_state, At(dense.id, index),
                                  At(dense.lat, index), At(dense.lon, index))
                kv_from == s.dense_state.kv_pos
                kv_to == ScanKeyVals(dense.keys_vals, kv_from)
                ds == [added EXCEPT !.kv_pos = kv_to]
                t == [s EXCEPT !.prim_pos = index + 1, !.dense_state = ds]
            IN IF SliceInRange(dense.keys_vals, kv_from, kv_to)
               THEN Returns(t, RetSome(from_dense_node(index, ds,
                                Slice(dense.keys_vals, kv_from, kv_to), s.group_pos, blk)))
               ELSE Returns(t, RetPanic)
       ELSE AdvanceGroup(ResetDense(s))

\* the arms of the ways, relations and changesets
RefArm(kind, values, s) ==
    IF Has(values, s.prim_pos)
    THEN Returns([s EXCEPT !.prim_pos = s.prim_pos + 1],
                 RetSome(PrimitiveRef(kind, s.group_pos, s.prim_pos, At(values, s.prim_pos))))
    ELSE AdvanceGroup(s)

\* one pass of the loop of PrimitivesIter::next
LoopPass(blk, f, s) ==
    IF ~Has(blk.primitivegroup, s.group_pos) THEN Exhausted(s)
    ELSE LET g == At(blk.primitivegroup, s.group_pos)
             b == Branch(g, f)
         IN IF b = "nodes" THEN NodesArm(blk, g, s)
            ELSE IF b = "dense" THEN DenseArm(blk, g, s)
            ELSE IF b = "ways" THEN RefArm("Way", g.ways, s)
            ELSE IF b = "relations" THEN RefArm("Relation", g.relations, s)
            ELSE IF b = "changesets" THEN RefArm("ChangeSet", g.changesets, s)
            ELSE AdvanceGroup(s)

\* a fresh iterator: PrimitiveBlock::primitives
IterStart == IterState(0, 0, DenseStateDefault)

RECURSIVE Drain(_, _, _, _)
\* every primitive next returns from state s on, until it returns None or panics
Drain(blk, f, s, acc) ==
    LET r == LoopPass(blk, f, s)
    IN IF r.ret.tag = "Continue" THEN Drain(blk, f, r.s, acc)
       ELSE IF r.ret.tag = "Some" THEN Drain(blk, f, r.s, Append(acc, r.ret.value))
       ELSE acc

\* block.primitives().filter_types(f) collected
Collect(blk, f) == Drain(blk, f, IterStart, <<>>)

-----------------------------------------------------------------------------
(* Blobs: the frame reader.                                                *)
(*                                                                         *)
(* The byte source is held as its frames. A frame is the bytes of its      *)
(* length prefix, what the header_size bytes after it parse to, and        *)
(* whether the source ends inside the header or inside the payload. A      *)
(* source that ends inside a message ends inside one of its fields.        *)

MAX_HEADER_SIZE == 64 * 1024
MAX_UNCOMPRESSED_DATA_SIZE == 32 * 1024 * 1024

\* the required features of header.rs
DENSE_NODES == "DenseNodes"
HISTORICAL_INFORMATION == "HistoricalInformation"

\* the variants of the data field of a Blob that decode reads, and the rest
ReadVariants == {"Raw", "ZlibData", "LzmaData"}
ReservedVariants == {"OBSOLETEBzip2Data", "Lz4Data", "ZstdData"}

\* read_u32::<BigEndian> of four bytes
BigEndian(b) == ((b[1] * 256 + b[2]) * 256 + b[3]) * 256 + b[4]

\* a header_size check that also refuses the limit itself
HeaderTooLargeAtLimit(header_size) == header_size >= MAX_HEADER_SIZE

\* header_size > MAX_HEADER_SIZE
HeaderTooLarge(header_size) == header_size > MAX_HEADER_SIZE

\* data_size > MAX_UNCOMPRESSED_DATA_SIZE, of header.datasize() as usize
DataTooLarge(datasize) == AsUsize(datasize) > MAX_UNCOMPRESSED_DATA_SIZE

\* what a call on the reader returns, and the last part of the frame it read
RdNone(read) == [tag |-> "None", err |-> "", read |-> read]
RdSome(read) == [tag |-> "Some", err |-> "", read |-> read]
RdErr(err, read) == [tag |-> "Err", err |-> err, read |-> read]

\* Blobs::_read_blob_header with the reader before frame number pos
ReadBlobHeader(src, pos) ==
    IF ~Has(src, pos) THEN RdNone("none")
    ELSE LET f == At(src, pos)
         IN IF Len(f.prefix) < 4 THEN RdNone("prefix")
            ELSE IF HeaderTooLarge(BigEndian(f.prefix)) THEN RdErr("BlobHeaderToLarge", "prefix")
            ELSE IF f.header_cut \/ ~f.header.parses THEN RdErr("Parse", "header")
            ELSE IF DataTooLarge(f.header.datasize) THEN RdErr("BlobDataToLarge", "header")
            ELSE RdSome("header")

\* Blobs::read_msg_exact of the payload of frame number pos
ReadPayload(src, pos) ==
    IF At(src, pos).data_cut THEN RdErr("Parse", "data") ELSE RdSome("data")

\* Blob::parse_and_decode of the payload of frame number pos: the fields of the
\* variants it reads are merged into a new message, every other field is
\* skipped; initialized is what check_initialized says of a message that
\* nothing was merged into
ParseAndDecode(src, pos, initialized) ==
    LET f == At(src, pos)
    IN IF f.data_cut THEN RdErr("Parse", "data")
       ELSE IF f.blob.data \in ReadVariants
            THEN IF f.blob.parses THEN RdSome("data") ELSE RdErr("Parse", "data")
       ELSE IF initialized THEN RdSome("data") ELSE RdErr("Parse", "data")

\* the frame's type is the one the caller expects, then the payload is read
ReadTyped(src, pos, type) ==
    LET h == ReadBlobHeader(src, pos)
    IN IF h.tag # "Some" THEN h
       ELSE IF At(src, pos).header.type # type THEN RdErr("UnexpectedBlobType", "header")
       ELSE ReadPayload(src, pos)

\* a decoding read that takes a frame of any type
DecodeAnyType(src, pos, type, initialized) ==
    LET h == ReadBlobHeader(src, pos)
    IN IF h.tag # "Some" THEN h ELSE ParseAndDecode(src, pos, initialized)

\* the frame's type is the one the caller expects, then the payload is decoded
DecodeTyped(src, pos, type, initialized) ==
    LET h == ReadBlobHeader(src, pos)
    IN IF h.tag # "Some" THEN h
       ELSE IF At(src, pos).header.type # type THEN RdErr("UnexpectedBlobType", "header")
       ELSE ParseAndDecode(src, pos, initialized)

\* Blobs::_read_header_block
ReadHeaderBlock(src, pos, initialized) ==
    LET r == DecodeTyped(src, pos, "OSMHeader", initialized)
    IN IF r.tag = "None" THEN RdErr("UnexpectedEof", r.read) ELSE r

\* Blobs::next_primitive_block_decoded
NextPrimitiveBlockDecodedOf(src, pos, initialized) ==
    DecodeTyped(src, pos, "OSMData", initialized)

\* Blobs::next_blob
NextBlobOf(src, pos) ==
    LET h == ReadBlobHeader(src, pos)
    IN IF h.tag # "Some" THEN h ELSE ReadPayload(src, pos)

\* Blobs::next_primitive_block
NextPrimitiveBlockOf(src, pos) == ReadTyped(src, pos, "OSMData")

\* a complete frame; its payload is a Blob of raw data that parses to a message
\* without features
Frame(prefix, type, datasize) ==
    [prefix |-> prefix,
     header |-> [parses |-> TRUE, type |-> type, datasize |-> datasize],
     blob |-> [data |-> "Raw", parses |-> TRUE],
     required_features |-> <<>>, optional_features |-> <<>>,
     header_cut |-> FALSE, data_cut |-> FALSE]

\* length prefixes: 10, 65536, 65537 and 100000
Prefix10 == <<0, 0, 0, 10>>
PrefixAtLimit == <<0, 1, 0, 0>>
PrefixOverLimit == <<0, 1, 0, 1>>
PrefixOversize == <<0, 1, 134, 160>>

BlobTypes == {"OSMHeader", "OSMData", "Other"}

\* complete frames whose payload is not raw data that parses
VariantFrames ==
    {[Frame(Prefix10, "OSMData", 10) EXCEPT !.blob.data = d] :
        d \in ReservedVariants \cup {"None"}}
    \cup {[Frame(Prefix10, "OSMHeader", 10) EXCEPT !.blob.data = "OBSOLETEBzip2Data"],
          [Frame(Prefix10, "OSMData", 10) EXCEPT !.blob.parses = FALSE]}

\* header frames that list features
FeatureFrames ==
    {[Frame(Prefix10, "OSMHeader", 10) EXCEPT !.required_features = <<DENSE_NODES, "Unknown">>],
     [Frame(Prefix10, "OSMHeader", 10) EXCEPT !.required_features = <<HISTORICAL_INFORMATION>>,
                                              !.optional_features = <<"Unknown">>]}

\* the frames a reader gets through
GoodFrames ==
    {Frame(p, ty, ds) : p \in {Prefix10, PrefixAtLimit}, ty \in BlobTypes,
                        ds \in {10, MAX_UNCOMPRESSED_DATA_SIZE}}
    \cup VariantFrames \cup FeatureFrames

\* the frames a reader stops at: the source ends in them or a size is over its limit
BadFrames ==
    {Frame(p, "OSMData", 10) : p \in {PrefixOverLimit, PrefixOversize}}
    \cup {Frame(SubSeq(Prefix10, 1, n), "OSMData", 10) : n \in 1..3}
    \cup {Frame(Prefix10, ty, ds) : ty \in {"OSMHeader", "OSMData"},
                                    ds \in {MAX_UNCOMPRESSED_DATA_SIZE + 1, -1}}
    \cup {[Frame(Prefix10, "OSMData", 10) EXCEPT !.header_cut = TRUE],
          [Frame(Prefix10, "OSMData", 10) EXCEPT !.header.parses = FALSE],
          [Frame(Prefix10, "OSMData", 10) EXCEPT !.data_cut = TRUE]}

\* the byte sources: complete frames, then nothing more or one frame the reader stops at
Sources ==
    {good \o bad : good \in SeqsUpTo(GoodFrames, MaxFrames),
                   bad \in {<<>>} \cup {<<f>> : f \in BadFrames}}

-----------------------------------------------------------------------------
(* Blob: the lazily decoded blob.                                          *)
(*                                                                         *)
(* The bytes of a data field are held as the message they parse to, a      *)
(* number above 0, or as 0 when they do not parse.                         *)

\* M::new()
NewMessage == 0

\* Blob::Encoded(PbfBlob { data, .. })
Encoded(data, bytes) == [tag |-> "Encoded", data |-> data, bytes |-> bytes]

\* Blob::Decoded(m)
Decoded(m) == [tag |-> "Decoded", msg |-> m]

\* the Blob after decode_into has taken it
Moved == [tag |-> "Moved"]

LzOk(m) == [tag |-> "Ok", msg |-> m, err |-> ""]
LzErr(err) == [tag |-> "Err", msg |-> NewMessage, err |-> err]

\* what decode leaves and returns, and whether it parsed
Decodes(blob, ret, parsed) == [blob |-> blob, ret |-> ret, work |-> IF parsed THEN 1 ELSE 0]

\* a decode that parses the message again on a Blob that is Decoded
DecodeDecodedAgain(b) == Decodes(b, LzOk(b.msg), TRUE)

\* Blob::decode on a Blob that is Decoded
DecodeDecoded(b) == Decodes(b, LzOk(b.msg), FALSE)

\* Blob::decode on a Blob that is Encoded
DecodeEncoded(b) ==
    IF b.data \in ReadVariants
    THEN IF b.bytes = 0 THEN Decodes(b, LzErr("Parse"), TRUE)
         ELSE Decodes(Decoded(b.bytes), LzOk(b.bytes), TRUE)
    ELSE IF b.data = "None" THEN Decodes(Decoded(NewMessage), LzOk(NewMessage), FALSE)
    ELSE Decodes(b, LzErr("UnsupportedEncoding"), FALSE)

\* Blob::decode
DecodeOf(b) == IF b.tag = "Encoded" THEN DecodeEncoded(b) ELSE DecodeDecoded(b)

\* the Blobs a caller holds: as a reader returns them, or made Decoded
LazyBlobs ==
    {Encoded(d, bytes) : d \in ReadVariants, bytes \in 0..3}
    \cup {Encoded(d, bytes) : d \in ReservedVariants \cup {"None"}, bytes \in {0, 1}}
    \cup {Decoded(m) : m \in 0..3}

-----------------------------------------------------------------------------
(* Tags: the tag iterator over the string table.                           *)

\* byte strings of the string table: "a", "b", and [0xFF, 0xFE]
StrA == <<97>>
StrB == <<98>>
StrBad == <<255, 254>>

IsCont(b) == b >= 128 /\ b <= 191

RECURSIVE Utf8Valid(_)
\* std::str::from_utf8(b).is_ok()
Utf8Valid(b) ==
    IF b = <<>> THEN TRUE
    ELSE IF b[1] < 128 THEN Utf8Valid(Tail(b))
    ELSE IF b[1] >= 194 /\ b[1] <= 223
         THEN Len(b) >= 2 /\ IsCont(b[2]) /\ Utf8Valid(SubSeq(b, 3, Len(b)))
    ELSE IF b[1] >= 224 /\ b[1] <= 239
         THEN /\ Len(b) >= 3 /\ IsCont(b[2]) /\ IsCont(b[3])
              /\ (b[1] = 224 => b[2] >= 160)
              /\ (b[1] = 237 => b[2] <= 159)
              /\ Utf8Valid(SubSeq(b, 4, Len(b)))
    ELSE IF b[1] >= 240 /\ b[1] <= 244
         THEN /\ Len(b) >= 4 /\ IsCont(b[2]) /\ IsCont(b[3]) /\ IsCont(b[4])
              /\ (b[1] = 240 => b[2] >= 144)
              /\ (b[1] = 244 => b[2] <= 143)
              /\ Utf8Valid(SubSeq(b, 5, Len(b)))
    ELSE FALSE

OptNone == [tag |-> "None"]
OptSome(v) == [tag |-> "Some", value |-> v]

\* s.get(index).and_then(|b| std::str::from_utf8(b).ok())
GetStr(s, index) ==
    IF Has(s, index) /\ Utf8Valid(At(s, index)) THEN OptSome(At(s, index)) ELSE OptNone

\* TagsData::Normal(keys.iter(), vals.iter())
TagsNormal(keys, vals) ==
    [layout |-> "Normal", keys |-> keys, vals |-> vals, kv_pairs |-> <<>>]

\* TagsData::Dense(kv_pairs.iter())
TagsDense(kv_pairs) ==
    [layout |-> "Dense", keys |-> <<>>, vals |-> <<>>, kv_pairs |-> kv_pairs]

TagsReturns(kv, ret) == [kv |-> kv, ret |-> ret]
TagsContinues(kv) == [kv |-> kv, ret |-> [tag |-> "Continue"]]

\* a next that ends the iteration at a pair it cannot decode
SkipPairStops(kv) == TagsReturns(kv, OptNone)

\* the `continue` of Tags::next at a pair it cannot decode
SkipPair(kv) == TagsContinues(kv)

\* the end of a pass of Tags::next, the two indices read
DecodePair(s, kv, key_index, value_index) ==
    LET key == GetStr(s, key_index)
        value == GetStr(s, value_index)
    IN IF key.tag = "None" THEN SkipPair(kv)
       ELSE IF value.tag = "None" THEN SkipPair(kv)
       ELSE TagsReturns(kv, OptSome(<<key.value, value.value>>))

\* one pass of the loop of Tags::next
TagsPass(s, kv) ==
    IF kv.layout = "Normal"
    THEN IF kv.keys = <<>> THEN TagsReturns(kv, OptNone)
         ELSE LET k1 == [kv EXCEPT !.keys = Tail(kv.keys)]
              IN IF kv.vals = <<>> THEN TagsReturns(k1, OptNone)
                 ELSE DecodePair(s, [k1 EXCEPT !.vals = Tail(kv.vals)],
                                 AsUsize(Head(kv.keys)), AsUsize(Head(kv.vals)))
    ELSE IF kv.kv_pairs = <<>> THEN TagsReturns(kv, OptNone)
         ELSE LET k1 == [kv EXCEPT !.kv_pairs = Tail(kv.kv_pairs)]
              IN IF k1.kv_pairs = <<>> THEN TagsReturns(k1, OptNone)
                 ELSE DecodePair(s, [k1 EXCEPT !.kv_pairs = Tail(k1.kv_pairs)],
                                 AsUsize(Head(kv.kv_pairs)), AsUsize(Head(k1.kv_pairs)))

RECURSIVE TagsNextOf(_, _)
\* Tags::next: passes of the loop until one returns
TagsNextOf(s, kv) ==
    LET r == TagsPass(s, kv)
    IN IF r.ret.tag = "Continue" THEN TagsNextOf(s, r.kv) ELSE r

RECURSIVE TagsGetNormal(_, _, _, _)
\* the Normal arm of Tags::get, on clones of the two iterators
TagsGetNormal(s, keys, vals, key) ==
    IF keys = <<>> THEN OptNone
    ELSE LET key_index == AsUsize(Head(keys))
         IN IF Has(s, key_index) /\ At(s, key_index) = key
            THEN IF vals = <<>> THEN OptNone ELSE GetStr(s, AsUsize(Head(vals)))
            ELSE TagsGetNormal(s, Tail(keys), vals, key)

RECURSIVE TagsGetDense(_, _, _)
\* the Dense arm of Tags::get, on a clone of the iterator
TagsGetDense(s, kv_pairs, key) ==
    IF Len(kv_pairs) < 2 THEN OptNone
    ELSE LET key_index == AsUsize(kv_pairs[1])
             value_index == AsUsize(kv_pairs[2])
         IN IF Has(s, key_index) /\ At(s, key_index) = key
            THEN GetStr(s, value_index)
            ELSE TagsGetDense(s, SubSeq(kv_pairs, 3, Len(kv_pairs)), key)

\* Tags::get(key)
TagsGetOf(s, kv, key) ==
    IF kv.layout = "Normal" THEN TagsGetNormal(s, kv.keys, kv.vals, key)
    ELSE TagsGetDense(s, kv.kv_pairs, key)

\* the string tables of the model: two entries, so that index 2 is out of range
StringTables == {<<x, y>> : x \in {StrA, StrB, StrBad}, y \in {StrA, StrB, StrBad}}

\* the tag fields an entity may hold: u32 indices in keys and vals, i32 in kv_pairs
TagFields ==
    {TagsNormal(keys, vals) : keys \in SeqsUpTo(0..2, MaxTags), vals \in SeqsUpTo(0..2, MaxTags)}
    \cup {TagsDense(kv_pairs) : kv_pairs \in SeqsUpTo(-1..2, 2 * MaxTags)}

\* the keys get is called with: a &str is valid UTF-8
GetKeys == {StrA, StrB}

-----------------------------------------------------------------------------
(* Members: the member iterator of a relation.                             *)

\* the values of relation::MemberType, and a value that is none of them
MemberTypes == {"NODE", "WAY", "RELATION"}
UnknownType == "Unknown"

\* Member::Node(NodeId(id), role), Member::Way(..), Member::Relation(..)
Member(type, id, role) == [type |-> type, id |-> id, role |-> role]

\* the three slice iterators of a Members, as what each has left
MembersIt(roles, member_ids, member_types) ==
    [roles_sid |-> roles, memids |-> member_ids, types |-> member_types]

MembersReturns(it, ret) == [it |-> it, ret |-> ret]
MembersContinues(it) == [it |-> it, ret |-> [tag |-> "Continue"]]

\* a skip that has taken the type of the member and left its role and id
SkipMemberTypeOnly(before, after) ==
    MembersContinues([before EXCEPT !.types = after.types])

\* the `continue` of Members::next at a type that is no MemberType: the role,
\* the id and the type have been taken
SkipMember(before, after) == MembersContinues(after)

\* self.strings.get(role_str_id).map(Deref::deref).unwrap_or("")
RoleStr(strings, role_str_id) ==
    IF Has(strings, role_str_id) THEN At(strings, role_str_id) ELSE ""

\* one pass of the loop of Members::next
MembersPass(strings, it) ==
    IF it.roles_sid = <<>> THEN MembersReturns(it, OptNone)
    ELSE LET role_str_id == AsUsize(Head(it.roles_sid))
             it1 == [it EXCEPT !.roles_sid = Tail(it.roles_sid)]
         IN IF it1.memids = <<>> THEN MembersReturns(it1, OptNone)
            ELSE LET member_id == Head(it1.memids)
                     it2 == [it1 EXCEPT !.memids = Tail(it1.memids)]
                 IN IF it2.types = <<>> THEN MembersReturns(it2, OptNone)
                    ELSE LET member_type == Head(it2.types)
                             it3 == [it2 EXCEPT !.types = Tail(it2.types)]
                         IN IF member_type \notin MemberTypes THEN SkipMember(it, it3)
                            ELSE MembersReturns(it3,
                                     OptSome(Member(member_type, member_id,
                                                    RoleStr(strings, role_str_id))))

RECURSIVE MembersNextOf(_, _)
\* Members::next: passes of the loop until one returns
MembersNextOf(strings, it) ==
    LET r == MembersPass(strings, it)
    IN IF r.ret.tag = "Continue" THEN MembersNextOf(strings, r.it) ELSE r

\* the string tables of the relations: index 0 is the empty string
RoleTables == {<<"">>, <<"", "inner">>}

\* the relations: delta-coded memids, roles_sid in and out of the table
Relations ==
    {MembersIt(roles, member_ids, member_types) :
        roles \in SeqsUpTo({-1, 0, 1}, MaxMembers),
        member_ids \in SeqsUpTo({5, -3}, MaxMembers),
        member_types \in SeqsUpTo(MemberTypes \cup {UnknownType}, MaxMembers)}

-----------------------------------------------------------------------------
(* NodeRef::info: the metadata of a node.                                  *)

\* a cast of an i32 with `as u32`: a negative value wraps to 2^32 + v; the
\* largest integer of the model checker stands for it
AsU32(v) == IF v < 0 THEN 2147483647 ELSE v

\* slice.get(index).copied()
GetCopied(seq, index) == IF Has(seq, index) THEN OptSome(At(seq, index)) ELSE OptNone

\* Option::map(|v| v as u32)
MapAsU32(opt) == IF opt.tag = "Some" THEN OptSome(AsU32(opt.value)) ELSE opt

\* the DenseNode arm of NodeRef::info
InfoOfDense(denseinfo, index) ==
    [version |-> GetCopied(denseinfo.version, index),
     timestamp |-> GetCopied(denseinfo.timestamp, index),
     changeset |-> GetCopied(denseinfo.changeset, index),
     uid |-> GetCopied(denseinfo.uid, index),
     user_sid |-> MapAsU32(GetCopied(denseinfo.user_sid, index)),
     visible |-> GetCopied(denseinfo.visible, index)]

\* NodeRef::info of a node the iterator of blk returned
InfoOf(p, blk) ==
    LET g == At(blk.primitivegroup, p.data.group)
    IN IF p.data.layout = "Node" THEN At(g.nodes, p.index).info
       ELSE InfoOfDense(g.dense.denseinfo, p.index)

\* one entry of the parallel denseinfo arrays:
\* <<version, timestamp, changeset, uid, user_sid, visible>>
InfoEntries == {<<1, 1000, 50, 7, 1, TRUE>>, <<2, 60, 3, 0, 1, FALSE>>}

\* the denseinfo whose arrays hold the entries of d
DenseInfoOf(d) ==
    [version |-> [i \in 1..Len(d) |-> d[i][1]],
     timestamp |-> [i \in 1..Len(d) |-> d[i][2]],
     changeset |-> [i \in 1..Len(d) |-> d[i][3]],
     uid |-> [i \in 1..Len(d) |-> d[i][4]],
     user_sid |-> [i \in 1..Len(d) |-> d[i][5]],
     visible |-> [i \in 1..Len(d) |-> d[i][6]]]

\* the Info of a node that is not dense
PlainInfo(i) ==
    [version |-> OptSome(i), timestamp |-> OptSome(1000 + i), changeset |-> OptSome(50),
     uid |-> OptSome(7), user_sid |-> OptSome(1), visible |-> OptNone]

\* the info family: one group of dense nodes with a denseinfo of any length,
\* or of nodes that carry their info
InfoBlocks ==
    {MkBlock(<<[MkGroup(0, NoDense, 0, 0, 0) EXCEPT
                    !.dense = [is_some |-> TRUE,
                               id |-> MkDense(n).id, lat |-> MkDense(n).lat,
                               lon |-> MkDense(n).lon, keys_vals |-> MkDense(n).keys_vals,
                               denseinfo |-> DenseInfoOf(d)]]>>, DefaultScale) :
        n \in 1..MaxDense, d \in SeqsUpTo(InfoEntries, MaxDense)}
    \cup {MkBlock(<<[MkGroup(0, NoDense, 0, 0, 0) EXCEPT
                        !.nodes = [i \in 1..n |->
                                     [id |-> 100 + i, lat |-> i, lon |-> -i,
                                      info |-> PlainInfo(i)]]]>>, DefaultScale) :
            n \in 1..MaxEntities}

\* a dense group whose id, lat and lon hold a, b and c entries, with one keys_vals
\* terminator for each node there could be, and a denseinfo of k entries (none at
\* all reads as the default instance: k = 0)
UnevenDense(a, b, c, k) ==
    [MkGroup(0, NoDense, 0, 0, 0) EXCEPT
        !.dense = [is_some |-> TRUE,
                   id |-> SubSeq(MkDense(MaxDense).id, 1, a),
                   lat |-> SubSeq(MkDense(MaxDense).lat, 1, b),
                   lon |-> SubSeq(MkDense(MaxDense).lon, 1, c),
                   keys_vals |-> MkDense(MaxDense).keys_vals,
                   denseinfo |-> DenseInfoOf([i \in 1..k |-> <<i, 1000, 50, 7, 1, TRUE>>])]]

\* the groups that may stand before the dense group of the uneven family
UnevenLead ==
    {<<>>,
     <<[MkGroup(0, NoDense, 0, 0, 0) EXCEPT
          !.nodes = <<[id |-> 101, lat |-> 1, lon |-> -1, info |-> PlainInfo(1)]>>]>>}

\* the uneven family: a dense group whose parallel arrays differ in length, alone
\* or after a group of one node
UnevenBlocks ==
    {MkBlock(lead \o <<UnevenDense(a, b, c, k)>>, DefaultScale) :
        lead \in UnevenLead, a \in 0..MaxDense, b \in 0..MaxDense, c \in 0..MaxDense,
        k \in 0..MaxDense}

-----------------------------------------------------------------------------
(* The parts of the model a specification leaves out stand still.        *)

\* no PrimitivesIter is in use
IterIdle ==
    /\ block = MkBlock(<<>>, DefaultScale)
    /\ filter = DEFAULT
    /\ group_pos = 0
    /\ prim_pos = 0
    /\ dense_state = DenseStateDefault
    /\ pc = "idle"
    /\ last = NotCalled
    /\ out = <<>>
    /\ none_count = 0

\* no Tags is in use
TagsIdle ==
    /\ tags_s = <<>>
    /\ tags_src = TagsDense(<<>>)
    /\ tags_kv = TagsDense(<<>>)
    /\ tags_out = <<>>
    /\ tags_last = [op |-> "none"]

\* no reader is in use
BlobsIdle ==
    /\ source = <<>>
    /\ rd_pos = 0
    /\ rd_state = "unopened"
    /\ rd_last = [op |-> "none"]

\* no Blob is in use
LazyIdle ==
    /\ lazy = [tag |-> "Moved"]
    /\ lazy_ret = [tag |-> "NotCalled"]
    /\ lazy_work = 0
    /\ lazy_calls = 0

\* no Members is in use
MembersIdle ==
    /\ mem_strings = <<>>
    /\ mem_src = [roles_sid |-> <<>>, memids |-> <<>>, types |-> <<>>]
    /\ mem_it = [roles_sid |-> <<>>, memids |-> <<>>, types |-> <<>>]
    /\ mem_out = <<>>
    /\ mem_last = [tag |-> "NotCalled"]

\* NodeRef::info has not been called
InfoIdle == info_ret = [tag |-> "NotCalled"]

-----------------------------------------------------------------------------
(* PrimitivesIter: the actions.                                            *)

groups == block.primitivegroup

\* self.groups.get(self.group_pos) is Some
HasGroup == Has(groups, group_pos)

group == At(groups, group_pos)

InitIter ==
    /\ block \in Blocks
    /\ filter \in Filters
    /\ group_pos = 0
    /\ prim_pos = 0
    /\ dense_state = DenseStateDefault
    /\ pc = "idle"
    /\ last = NotCalled
    /\ out = <<>>
    /\ none_count = 0
    /\ TagsIdle
    /\ BlobsIdle
    /\ LazyIdle
    /\ MembersIdle
    /\ InfoIdle

\* the caller calls next; after a None it may call again
Call ==
    /\ pc = "idle"
    /\ none_count < MaxNone
    /\ pc' = "loop"
    /\ UNCHANGED <<block, filter, group_pos, prim_pos, dense_state, last, out, none_count>>
    /\ UNCHANGED <<beside_iter, info_ret>>

\* the pass of the loop taken from the current state
Pass ==
    LET r == LoopPass(block, filter, IterState(group_pos, prim_pos, dense_state))
    IN /\ group_pos' = r.s.group_pos
       /\ prim_pos' = r.s.prim_pos
       /\ dense_state' = r.s.dense_state
       /\ IF r.ret.tag = "Continue"
          THEN UNCHANGED <<pc, last, out, none_count>>
          ELSE /\ last' = r.ret
               /\ pc' = IF r.ret.tag = "Panic" THEN "panicked" ELSE "idle"
               /\ out' = IF r.ret.tag = "Some" THEN Append(out, r.ret.value) ELSE out
               /\ none_count' = IF r.ret.tag = "None" THEN none_count + 1 ELSE none_count
       /\ UNCHANGED <<block, filter>>
       /\ UNCHANGED <<beside_iter, info_ret>>

ReturnNone == pc = "loop" /\ ~HasGroup /\ Pass

NodeBranch == pc = "loop" /\ HasGroup /\ Branch(group, filter) = "nodes" /\ Pass

DenseBranch == pc = "loop" /\ HasGroup /\ Branch(group, filter) = "dense" /\ Pass

WayBranch == pc = "loop" /\ HasGroup /\ Branch(group, filter) = "ways" /\ Pass

RelationBranch == pc = "loop" /\ HasGroup /\ Branch(group, filter) = "relations" /\ Pass

ChangeSetBranch == pc = "loop" /\ HasGroup /\ Branch(group, filter) = "changesets" /\ Pass

NoBranch == pc = "loop" /\ HasGroup /\ Branch(group, filter) = "none" /\ Pass

Next ==
    \/ Call
    \/ ReturnNone
    \/ NodeBranch
    \/ DenseBranch
    \/ WayBranch
    \/ RelationBranch
    \/ ChangeSetBranch
    \/ NoBranch

Spec == InitIter /\ [][Next]_vars

\* the iterator whose caller goes on calling next and whose loop goes on running
SpecFair == InitIter /\ [][Next]_vars /\ WF_vars(Next)

-----------------------------------------------------------------------------
(* Tags: the actions.                                                      *)

\* NodeRef::tags, WayRef::tags, RelationRef::tags
InitTags ==
    /\ tags_s \in StringTables
    /\ tags_src \in TagFields
    /\ tags_kv = tags_src
    /\ tags_out = <<>>
    /\ tags_last = [op |-> "none"]
    /\ IterIdle
    /\ BlobsIdle
    /\ LazyIdle
    /\ MembersIdle
    /\ InfoIdle

\* a call of Tags::next; after a None it is called once more
TagsNext ==
    /\ ~(tags_last.op = "next" /\ tags_last.ret.tag = "None" /\ tags_last.again)
    /\ LET r == TagsNextOf(tags_s, tags_kv)
       IN /\ tags_kv' = r.kv
          /\ tags_out' = IF r.ret.tag = "Some" THEN Append(tags_out, r.ret.value) ELSE tags_out
          /\ tags_last' = [op |-> "next", ret |-> r.ret,
                           again |-> tags_last.op = "next" /\ tags_last.ret.tag = "None"]
    /\ UNCHANGED <<tags_s, tags_src>>
    /\ UNCHANGED beside_tags

\* a call of Tags::get, which leaves the Tags as it is
TagsGet ==
    /\ \E key \in GetKeys :
          tags_last' = [op |-> "get", key |-> key, ret |-> TagsGetOf(tags_s, tags_kv, key)]
    /\ UNCHANGED <<tags_s, tags_src, tags_kv, tags_out>>
    /\ UNCHANGED beside_tags

NextTags ==
    \/ TagsNext
    \/ TagsGet

SpecTags == InitTags /\ [][NextTags]_vars

-----------------------------------------------------------------------------
(* Blobs: the actions.                                                     *)

InitBlobs ==
    /\ source \in Sources
    /\ rd_pos = 0
    /\ rd_state = "unopened"
    /\ rd_last = [op |-> "none"]
    /\ IterIdle
    /\ TagsIdle
    /\ LazyIdle
    /\ MembersIdle
    /\ InfoIdle

\* the reader after a call that returned r: a frame further, at the end, or failed;
\* the calls a caller makes after an error are left out
AfterCall(op, r) ==
    /\ rd_last' = [op |-> op, after |-> rd_last.op, at |-> rd_pos, ret |-> r]
    /\ rd_pos' = IF r.tag = "Some" THEN rd_pos + 1 ELSE rd_pos
    /\ rd_state' = IF r.tag = "Err" THEN "failed" ELSE "open"
    /\ UNCHANGED source
    /\ UNCHANGED beside_blobs

\* Blobs::from_buf_read
Open ==
    /\ rd_state = "unopened"
    /\ \E initialized \in BOOLEAN :
          AfterCall("open", ReadHeaderBlock(source, rd_pos, initialized))

\* Blobs::next_blob
NextBlob ==
    /\ rd_state = "open"
    /\ AfterCall("next_blob", NextBlobOf(source, rd_pos))

\* Blobs::next_primitive_block
NextPrimitiveBlock ==
    /\ rd_state = "open"
    /\ AfterCall("next_primitive_block", NextPrimitiveBlockOf(source, rd_pos))

\* Blobs::next_primitive_block_decoded
NextPrimitiveBlockDecoded ==
    /\ rd_state = "open"
    /\ \E initialized \in BOOLEAN :
          AfterCall("next_primitive_block_decoded",
                    NextPrimitiveBlockDecodedOf(source, rd_pos, initialized))

\* Blobs::rewind: the source is sought to its first byte
Rewind ==
    /\ rd_state = "open"
    /\ rd_last.op # "rewind"
    /\ rd_last' = [op |-> "rewind", after |-> rd_last.op, at |-> rd_pos, ret |-> RdSome("none")]
    /\ rd_pos' = 0
    /\ UNCHANGED <<source, rd_state>>
    /\ UNCHANGED beside_blobs

NextBlobs ==
    \/ Open
    \/ NextBlob
    \/ NextPrimitiveBlock
    \/ NextPrimitiveBlockDecoded
    \/ Rewind

SpecBlobs == InitBlobs /\ [][NextBlobs]_vars

-----------------------------------------------------------------------------
(* Blob: the actions.                                                      *)

InitLazy ==
    /\ lazy \in LazyBlobs
    /\ lazy_ret = [tag |-> "NotCalled"]
    /\ lazy_work = 0
    /\ lazy_calls = 0
    /\ IterIdle
    /\ TagsIdle
    /\ BlobsIdle
    /\ MembersIdle
    /\ InfoIdle

\* Blob::decode
Decode ==
    /\ lazy.tag # "Moved"
    /\ lazy_calls < MaxDecodes
    /\ LET r == DecodeOf(lazy)
       IN /\ lazy' = r.blob
          /\ lazy_ret' = r.ret
          /\ lazy_work' = lazy_work + r.work
    /\ lazy_calls' = lazy_calls + 1
    /\ UNCHANGED beside_lazy

\* Blob::decode_into
DecodeInto ==
    /\ lazy.tag # "Moved"
    /\ LET r == DecodeOf(lazy)
       IN /\ lazy' = Moved
          /\ lazy_ret' = r.ret
          /\ lazy_work' = lazy_work + r.work
    /\ UNCHANGED lazy_calls
    /\ UNCHANGED beside_lazy

NextLazy ==
    \/ Decode
    \/ DecodeInto

SpecLazy == InitLazy /\ [][NextLazy]_vars

-----------------------------------------------------------------------------
(* Members: the actions.                                                   *)

\* Relation::members
InitMembers ==
    /\ mem_strings \in RoleTables
    /\ mem_src \in Relations
    /\ mem_it = mem_src
    /\ mem_out = <<>>
    /\ mem_last = [tag |-> "NotCalled"]
    /\ IterIdle
    /\ TagsIdle
    /\ BlobsIdle
    /\ LazyIdle
    /\ InfoIdle

\* a call of Members::next; after a None it is called once more
MembersNext ==
    /\ ~(mem_last.tag = "None" /\ mem_last.again)
    /\ LET r == MembersNextOf(mem_strings, mem_it)
       IN /\ mem_it' = r.it
          /\ mem_out' = IF r.ret.tag = "Some" THEN Append(mem_out, r.ret.value) ELSE mem_out
          /\ mem_last' = IF r.ret.tag = "Some" THEN r.ret
                         ELSE [tag |-> "None", again |-> mem_last.tag = "None"]
    /\ UNCHANGED <<mem_strings, mem_src>>
    /\ UNCHANGED beside_members

NextMembers == MembersNext

SpecMembers == InitMembers /\ [][NextMembers]_vars

-----------------------------------------------------------------------------
(* NodeRef::info: the actions.                                             *)

InitInfo ==
    /\ block \in InfoBlocks
    /\ filter \in {NODE, DEFAULT, ALL}
    /\ group_pos = 0
    /\ prim_pos = 0
    /\ dense_state = DenseStateDefault
    /\ pc = "idle"
    /\ last = NotCalled
    /\ out = <<>>
    /\ none_count = 0
    /\ InfoIdle
    /\ TagsIdle
    /\ BlobsIdle
    /\ LazyIdle
    /\ MembersIdle

\* NodeRef::info on the node next returned last
Info ==
    /\ pc = "idle"
    /\ last.tag = "Some"
    /\ last.value.kind = "Node"
    /\ info_ret' = [tag |-> "Some", of |-> last.value, ret |-> InfoOf(last.value, block)]
    /\ UNCHANGED <<iter_vars, beside_iter>>

NextInfo ==
    \/ Call
    \/ ReturnNone
    \/ NodeBranch
    \/ DenseBranch
    \/ Info

SpecInfo == InitInfo /\ [][NextInfo]_vars

\* the iterator and info over the blocks of the uneven family
InitUneven ==
    /\ block \in UnevenBlocks
    /\ filter \in {NODE, DEFAULT, ALL}
    /\ group_pos = 0
    /\ prim_pos = 0
    /\ dense_state = DenseStateDefault
    /\ pc = "idle"
    /\ last = NotCalled
    /\ out = <<>>
    /\ none_count = 0
    /\ InfoIdle
    /\ TagsIdle
    /\ BlobsIdle
    /\ LazyIdle
    /\ MembersIdle

SpecUneven == InitUneven /\ [][NextInfo]_vars

-----------------------------------------------------------------------------
(* What the claims speak of.                                               *)

\* the place of a returned primitive in the block: category, group, index
Key(p) == <<p.data.layout, p.data.group, p.index>>

Keys(ps) == [k \in 1..Len(ps) |-> Key(ps[k])]

KeysOf(layout, gi, n) == [i \in 1..n |-> <<layout, gi, i - 1>>]

\* the places a group's selected categories hold, in the fixed order
GroupKeys(g, gi, f) ==
    (IF Contains(f, NODE) THEN KeysOf("Node", gi, Len(g.nodes)) ELSE <<>>)
    \o (IF Contains(f, NODE) THEN KeysOf("DenseNode", gi, Len(g.dense.id)) ELSE <<>>)
    \o (IF Contains(f, WAY) THEN KeysOf("Way", gi, Len(g.ways)) ELSE <<>>)
    \o (IF Contains(f, RELATION) THEN KeysOf("Relation", gi, Len(g.relations)) ELSE <<>>)
    \o (IF Contains(f, CHANGE_SET) THEN KeysOf("ChangeSet", gi, Len(g.changesets)) ELSE <<>>)

RECURSIVE BlockKeys(_, _, _)
\* the places of a block's selected entities, group after group from group gi on
BlockKeys(gs, gi, f) ==
    IF ~Has(gs, gi) THEN <<>> ELSE GroupKeys(At(gs, gi), gi, f) \o BlockKeys(gs, gi + 1, f)

\* the dense nodes among the returned primitives
IsDenseNode(p) == p.data.layout = "DenseNode"
IsPlainNode(p) == p.data.layout = "Node"

\* how many dense nodes of its own group were returned before out[k]
DenseOrdinal(k) ==
    Cardinality({j \in 1..(k - 1) :
        IsDenseNode(out[j]) /\ out[j].data.group = out[k].data.group})

DenseOf(p) == At(groups, p.data.group).dense

RECURSIVE TagRunEnd(_, _)
\* where the run of key/value pairs that starts at pos ends: at its terminator or at the end
TagRunEnd(kv, pos) ==
    IF Has(kv, pos) /\ At(kv, pos) # 0 THEN TagRunEnd(kv, pos + 2) ELSE Min(pos, Len(kv))

RECURSIVE TagRunStart(_, _)
\* where the run of the i-th dense node starts: just after the terminator before it
TagRunStart(kv, i) ==
    IF i = 0 THEN 0 ELSE Min(TagRunEnd(kv, TagRunStart(kv, i - 1)) + 1, Len(kv))

\* the run of keys_vals entries of the i-th dense node, terminators excluded
TagRun(kv, i) == Slice(kv, TagRunStart(kv, i), TagRunEnd(kv, TagRunStart(kv, i)))

Abs(x) == IF x < 0 THEN -x ELSE x

\* d is a multiple of g
IsMultiple(d, g) == IF g = 0 THEN d = 0 ELSE d % Abs(g) = 0

\* d / g of two i64, which is defined when g is not 0
Quotient(d, g) ==
    IF (d < 0) = (g < 0) THEN Abs(d) \div Abs(g) ELSE -(Abs(d) \div Abs(g))

\* the stored coordinates of the node the last call returned
StoredLat == IF IsDenseNode(last.value) THEN dense_state.lat
             ELSE At(group.nodes, last.value.index).lat
StoredLon == IF IsDenseNode(last.value) THEN dense_state.lon
             ELSE At(group.nodes, last.value.index).lon

\* the last call has just returned a node: the iterator stands as the call left it
ReturnedNode == pc = "idle" /\ last.tag = "Some" /\ last.value.kind = "Node"

\* the (key index, value index) pairs of tag fields, in order
TagPairs(kv) ==
    IF kv.layout = "Normal"
    THEN [i \in 1..Min(Len(kv.keys), Len(kv.vals)) |-> <<kv.keys[i], kv.vals[i]>>]
    ELSE [i \in 1..(Len(kv.kv_pairs) \div 2) |-> <<kv.kv_pairs[2 * i - 1], kv.kv_pairs[2 * i]>>]

\* the index lies in the string table and the string there is valid UTF-8
StrOk(s, index) == index >= 0 /\ index < Len(s) /\ Utf8Valid(s[index + 1])

PairOk(s, pr) == StrOk(s, pr[1]) /\ StrOk(s, pr[2])

\* the pairs (S[k], S[v]) of the tag fields whose two strings can be decoded, in order
DecodedTags(s, kv) ==
    LET Ok(pr) == PairOk(s, pr)
        good == SelectSeq(TagPairs(kv), Ok)
    IN [i \in 1..Len(good) |-> <<s[good[i][1] + 1], s[good[i][2] + 1]>>]

\* the value of the first of the tags whose key is key
FirstValue(tags, key) ==
    LET hits == {i \in 1..Len(tags) : tags[i][1] = key}
    IN IF hits = {} THEN OptNone
       ELSE OptSome(tags[CHOOSE i \in hits : \A j \in hits : i <= j][2])

\* tag fields as a producer writes them: as many vals as keys, every index in
\* the string table, every string valid UTF-8
AllValid(s, kv) ==
    /\ Len(kv.keys) = Len(kv.vals)
    /\ Len(kv.kv_pairs) % 2 = 0
    /\ \A i \in 1..Len(TagPairs(kv)) : PairOk(s, TagPairs(kv)[i])

-----------------------------------------------------------------------------
(* The claims.                                                             *)

\* C1: the selected entities of every group are returned in the fixed order
\* nodes, dense nodes, ways, relations, changesets, group after group: what has
\* been returned is always a prefix of that order, and when next returns None
\* every selected entity has been returned.
C1_FixedOrder ==
    /\ IsPrefix(Keys(out), BlockKeys(groups, 0, filter))
    /\ last.tag = "None" => Keys(out) = BlockKeys(groups, 0, filter)

\* C2: under the filter NODE|WAY|RELATION|CHANGE_SET, when next returns None
\* as many entities have been returned as the groups store.
C2_CountAll ==
    (filter = ALL /\ last.tag = "None") => Len(out) = BlockSize(groups)

\* C3: when next returns None, what has been returned under the filter is a
\* subsequence of what the iterator returns under every filter that contains it.
C3_FilterMonotone ==
    last.tag = "None" =>
        \A f2 \in Filters : FilterSubset(filter, f2) => IsSubseq(out, Collect(block, f2))

\* C4: the i-th dense node returned from a group has the id, latitude and
\* longitude that are the sums of the first i + 1 deltas of that group's arrays.
C4_DenseDelta ==
    \A k \in 1..Len(out) :
        IsDenseNode(out[k]) =>
            LET d == DenseOf(out[k])
                i == DenseOrdinal(k)
            IN /\ out[k].id = SumTo(d.id, i + 1)
               /\ out[k].nano_lat = block.lat_offset + SumTo(d.lat, i + 1) * block.granularity
               /\ out[k].nano_lon = block.lon_offset + SumTo(d.lon, i + 1) * block.granularity

\* C5: the tag slice of the i-th dense node returned from a group is the run of
\* keys_vals entries between the terminator before it and its own terminator,
\* terminators excluded.
C5_TagSlices ==
    \A k \in 1..Len(out) :
        IsDenseNode(out[k]) =>
            out[k].data.kv_pairs = TagRun(DenseOf(out[k]).keys_vals, DenseOrdinal(k))

\* C6 as stated: every node returned has nano = offset + stored * granularity,
\* nano - offset is a multiple of the granularity, and dividing it by the
\* granularity gives back the stored value.
C6_RescaleDivides ==
    ReturnedNode =>
        LET n == last.value
            g == block.granularity
        IN /\ n.nano_lat = block.lat_offset + StoredLat * g
           /\ n.nano_lon = block.lon_offset + StoredLon * g
           /\ IsMultiple(n.nano_lat - block.lat_offset, g)
           /\ IsMultiple(n.nano_lon - block.lon_offset, g)
           /\ g # 0
           /\ Quotient(n.nano_lat - block.lat_offset, g) = StoredLat
           /\ Quotient(n.nano_lon - block.lon_offset, g) = StoredLon

\* C6 amended: every node returned has nano = offset + stored * granularity and
\* nano - offset is a multiple of the granularity; when the granularity is not
\* 0, dividing nano - offset by it gives back the stored value.
C6_Rescale ==
    ReturnedNode =>
        LET n == last.value
            g == block.granularity
        IN /\ n.nano_lat = block.lat_offset + StoredLat * g
           /\ n.nano_lon = block.lon_offset + StoredLon * g
           /\ IsMultiple(n.nano_lat - block.lat_offset, g)
           /\ IsMultiple(n.nano_lon - block.lon_offset, g)
           /\ g # 0 => /\ Quotient(n.nano_lat - block.lat_offset, g) = StoredLat
                       /\ Quotient(n.nano_lon - block.lon_offset, g) = StoredLon

\* the second dense node of a group returned under a negative granularity and an
\* offset other than 0, its stored longitude the sum of two deltas
C6_Witness ==
    /\ ReturnedNode
    /\ IsDenseNode(last.value)
    /\ last.value.index = 1
    /\ block.granularity = -2
    /\ block.lon_offset = 4
    /\ StoredLon = 2000
    /\ last.value.nano_lon = -3996

\* C7: once next has returned None, every later call returns None.
C7_Fused == none_count > 0 => last.tag = "None"

\* next was called again after a None, on a block it returned entities from
C7_Witness == none_count >= 2 /\ last.tag = "None" /\ out # <<>>

\* C8: Tags::next returns the pairs (S[k], S[v]) of the tag fields whose two
\* indices lie in the string table and whose two strings are valid UTF-8, in
\* order: what it has returned is always a prefix of them, and when it returns
\* None it has returned them all, whatever pairs it had to skip.
C8_TagsIter ==
    /\ IsPrefix(tags_out, DecodedTags(tags_s, tags_src))
    /\ (tags_last.op = "next" /\ tags_last.ret.tag = "None")
           => tags_out = DecodedTags(tags_s, tags_src)

\* the iteration has ended; the first of two pairs has a key that is not valid
\* UTF-8 and was skipped, the second was returned
C8_Witness ==
    /\ tags_last.op = "next" /\ tags_last.ret.tag = "None"
    /\ tags_s = <<StrA, StrBad>>
    /\ TagPairs(tags_src) = <<<<1, 0>>, <<0, 0>>>>
    /\ tags_out = <<<<StrA, StrA>>>>

\* C9: on tag fields whose strings are all valid, get(key) returns the value
\* paired with the first key equal to key, the value iteration returns with it
\* (S[vals[i]] in the normal layout), and None when no key is equal to key.
C9_GetFirstMatch ==
    (tags_last.op = "get" /\ AllValid(tags_s, tags_kv))
        => tags_last.ret = FirstValue(DecodedTags(tags_s, tags_kv), tags_last.key)

\* the frame the last call of the reader was made on
LastFrame == At(source, rd_last.at)

\* the last call of the reader met a frame with all four bytes of its prefix
ReadFrame ==
    /\ rd_last.op \notin {"none", "rewind"}
    /\ Has(source, rd_last.at)
    /\ Len(LastFrame.prefix) = 4

\* the header of the frame is all there and parses
HeaderRead == ~LastFrame.header_cut /\ LastFrame.header.parses

\* the frame has the type the last call asks for
TypeAsked ==
    \/ rd_last.op = "next_blob"
    \/ rd_last.op = "open" /\ LastFrame.header.type = "OSMHeader"
    \/ rd_last.op = "next_primitive_block" /\ LastFrame.header.type = "OSMData"
    \/ rd_last.op = "next_primitive_block_decoded" /\ LastFrame.header.type = "OSMData"

\* the calls that decode the payload as they read it
EagerOps == {"open", "next_primitive_block_decoded"}

\* the payload of the frame is there and holds data that parses
PayloadDecodes ==
    /\ ~LastFrame.data_cut
    /\ LastFrame.blob.data \in {"Raw", "ZlibData", "LzmaData"}
    /\ LastFrame.blob.parses

\* C10: a call that reads a frame whose header_size prefix is above 65536 fails
\* with BlobHeaderToLarge having read the prefix only; one whose header is read
\* and declares a datasize above 33554432 fails with BlobDataToLarge having read
\* the header but no payload; a complete frame of the type asked for with a
\* header_size of 65536 or a datasize of 33554432 is returned.
C10_FramingBounds ==
    ReadFrame =>
        LET header_size == BigEndian(LastFrame.prefix)
            datasize == LastFrame.header.datasize
        IN /\ header_size > 65536 => rd_last.ret = RdErr("BlobHeaderToLarge", "prefix")
           /\ (header_size <= 65536 /\ HeaderRead /\ datasize > 33554432)
                 => rd_last.ret = RdErr("BlobDataToLarge", "header")
           /\ (/\ header_size <= 65536
               /\ HeaderRead
               /\ datasize >= 0
               /\ datasize <= 33554432
               /\ header_size = 65536 \/ datasize = 33554432
               /\ TypeAsked
               /\ ~LastFrame.data_cut
               /\ rd_last.op \in EagerOps => PayloadDecodes)
                 => rd_last.ret = RdSome("data")

\* a frame at both limits was returned, and the call after it was refused a
\* frame over a limit
C10_Witness ==
    /\ ReadFrame
    /\ rd_last.ret.tag = "Err"
    /\ rd_last.ret.err \in {"BlobHeaderToLarge", "BlobDataToLarge"}
    /\ rd_last.at > 0
    /\ LET f == At(source, rd_last.at - 1)
       IN f.prefix = PrefixAtLimit /\ f.header.datasize = 33554432

\* the source ends inside the frame the last call was made on
SourceEndsInFrame ==
    /\ Has(source, rd_last.at)
    /\ \/ Len(LastFrame.prefix) < 4
       \/ LastFrame.header_cut
       \/ LastFrame.data_cut

\* C11: next_blob and next_primitive_block return None only when no byte of a
\* frame is left in the source; when the source ends inside the length prefix,
\* the header or the payload of the frame, the call returns an error.
C11_EofOnlyBetweenFrames ==
    rd_last.op \in {"next_blob", "next_primitive_block"} =>
        /\ rd_last.ret.tag = "None" => ~Has(source, rd_last.at)
        /\ SourceEndsInFrame => rd_last.ret.tag = "Err"

\* the header of the frame the last call was made on passed the size checks
HeaderAccepted ==
    /\ ReadFrame
    /\ BigEndian(LastFrame.prefix) <= 65536
    /\ HeaderRead
    /\ LastFrame.header.datasize >= 0
    /\ LastFrame.header.datasize <= 33554432

\* C12: the open fails with UnexpectedEof on an empty source and with
\* UnexpectedBlobType on a first frame whose type is not "OSMHeader";
\* next_primitive_block and next_primitive_block_decoded fail with
\* UnexpectedBlobType on a frame whose type is not "OSMData"; neither returns a
\* frame of another type.
C12_TypeChecked ==
    /\ rd_last.op = "open" =>
          /\ source = <<>> => rd_last.ret.tag = "Err" /\ rd_last.ret.err = "UnexpectedEof"
          /\ (HeaderAccepted /\ LastFrame.header.type # "OSMHeader")
                => rd_last.ret = RdErr("UnexpectedBlobType", "header")
          /\ rd_last.ret.tag = "Some" => LastFrame.header.type = "OSMHeader"
    /\ rd_last.op \in {"next_primitive_block", "next_primitive_block_decoded"} =>
          /\ (HeaderAccepted /\ LastFrame.header.type # "OSMData")
                => rd_last.ret = RdErr("UnexpectedBlobType", "header")
          /\ rd_last.ret.tag = "Some" => LastFrame.header.type = "OSMData"

\* after an open that returned, a decoding read was refused a second header frame
C12_Witness ==
    /\ rd_last.op = "next_primitive_block_decoded"
    /\ rd_last.at = 1
    /\ Has(source, 1)
    /\ LastFrame.header.type = "OSMHeader"
    /\ rd_last.ret = RdErr("UnexpectedBlobType", "header")

\* C13: the next_primitive_block that follows a rewind reads the first data
\* frame, the frame after the header block, and returns it when it is a
\* complete OSMData frame.
C13_RewindToFirstData ==
    (/\ rd_last.op = "next_primitive_block"
     /\ rd_last.after = "rewind"
     /\ Has(source, 1)
     /\ At(source, 1) \in GoodFrames
     /\ At(source, 1).header.type = "OSMData")
        => rd_last.at = 1 /\ rd_last.ret.tag = "Some"

\* the features the reader knows as required features
SupportedFeatures == {"DenseNodes", "HistoricalInformation"}

\* the header block of the frame lists a required feature the reader does not know
UnknownRequired ==
    \E i \in 1..Len(LastFrame.required_features) :
        LastFrame.required_features[i] \notin SupportedFeatures

\* C14: the open of a source whose header block lists a required feature
\* outside the supported set fails with UnknownRequiredFeature; a header block
\* whose unknown features are all optional opens.
C14_RequiredFeatures ==
    (rd_last.op = "open" /\ HeaderAccepted /\ TypeAsked /\ PayloadDecodes) =>
        IF UnknownRequired
        THEN rd_last.ret.tag = "Err" /\ rd_last.ret.err = "UnknownRequiredFeature"
        ELSE rd_last.ret.tag = "Some"

\* C15: the open and next_primitive_block_decoded fail with UnsupportedEncoding
\* on a frame whose payload holds one of the reserved variants (bzip2, lz4,
\* zstd) and return no message.
C15_ReservedVariants ==
    (/\ rd_last.op \in EagerOps
     /\ HeaderAccepted
     /\ TypeAsked
     /\ ~LastFrame.data_cut
     /\ LastFrame.blob.data \in {"OBSOLETEBzip2Data", "Lz4Data", "ZstdData"})
        => rd_last.ret.tag = "Err" /\ rd_last.ret.err = "UnsupportedEncoding"

\* C16: a Blob goes from Encoded to Decoded only in a decode that returns Ok;
\* a Blob that is Decoded stays Decoded with the same message, and a decode of
\* it returns that message and parses nothing.
C16_OneWay ==
    [][/\ (lazy.tag = "Encoded" /\ lazy'.tag = "Decoded") => lazy_ret'.tag = "Ok"
       /\ (lazy.tag = "Decoded" /\ lazy'.tag # "Moved") => lazy' = lazy
       /\ lazy.tag = "Decoded" => lazy_ret' = LzOk(lazy.msg) /\ lazy_work' = lazy_work
       /\ (lazy.tag = "Encoded" /\ lazy_ret'.tag = "Err" /\ lazy'.tag # "Moved")
             => lazy' = lazy]_vars

\* a Blob was decoded three times and its data parsed once
C16_Witness ==
    /\ lazy = Decoded(2)
    /\ lazy_calls = 3
    /\ lazy_work = 1
    /\ lazy_ret = LzOk(2)

\* the position in the relation of the member Members::next returned last,
\* counted from 1
LastMember == Len(mem_src.roles_sid) - Len(mem_it.roles_sid)

\* C17: the id of the member returned for position i of the relation is the
\* running sum memids[0] + ... + memids[i].
C17_MemidsDecoded ==
    mem_last.tag = "Some" => mem_last.value.id = SumTo(mem_src.memids, LastMember)

\* the number of members of the relation: the length of its shortest array
MemberCount ==
    Min(Len(mem_src.roles_sid), Min(Len(mem_src.memids), Len(mem_src.types)))

RECURSIVE KnownUpTo(_)
\* the positions up to n whose type is a MemberType, in order
KnownUpTo(n) ==
    IF n = 0 THEN <<>>
    ELSE IF mem_src.types[n] \in {"NODE", "WAY", "RELATION"}
         THEN Append(KnownUpTo(n - 1), n) ELSE KnownUpTo(n - 1)

\* the member returned k-th is the member stored at position i
StoredAt(k, i) ==
    /\ mem_out[k].type = mem_src.types[i]
    /\ mem_out[k].id = mem_src.memids[i]
    /\ (mem_src.roles_sid[i] >= 0 /\ mem_src.roles_sid[i] < Len(mem_strings))
          => mem_out[k].role = mem_strings[mem_src.roles_sid[i] + 1]

\* C19: the members returned are, in order, the members of the relation whose
\* type is a MemberType, each with the type, the id and the role stored at its
\* own position; None is returned when they have all been returned, the
\* relation ending with its shortest array.
C19_UnknownTypeSkipped ==
    LET known == KnownUpTo(MemberCount)
    IN /\ Len(mem_out) <= Len(known)
       /\ \A k \in 1..Len(mem_out) : StoredAt(k, known[k])
       /\ mem_last.tag = "None" => Len(mem_out) = Len(known)

\* a member of unknown type was skipped and the member after it returned with
\* its own id and role
C19_Witness ==
    /\ mem_strings = <<"", "inner">>
    /\ mem_src = MembersIt(<<0, 1>>, <<5, -3>>, <<"Unknown", "WAY">>)
    /\ mem_out = <<Member("WAY", -3, "inner")>>
    /\ mem_last.tag = "None"

\* C20: a member whose roles_sid is outside the string table is not returned.
C20_RoleOutOfRangeSkipped ==
    mem_last.tag = "Some" =>
        /\ mem_src.roles_sid[LastMember] >= 0
        /\ mem_src.roles_sid[LastMember] < Len(mem_strings)

\* the denseinfo of the group of the dense node info was called on
InfoSource == At(block.primitivegroup, info_ret.of.data.group).dense.denseinfo

\* the running sum of a denseinfo array up to the node info was called on, or
\* None when the array ends before it
InfoSum(seq) ==
    IF info_ret.of.index < Len(seq)
    THEN [tag |-> "Some", value |-> SumTo(seq, info_ret.of.index + 1)]
    ELSE [tag |-> "None"]

\* C18: info of the i-th dense node has the running sums over 0..=i of the
\* timestamp, changeset, uid and user_sid arrays of the denseinfo, and the i-th
\* stored version and visible.
C18_DenseInfoDecoded ==
    (info_ret.tag = "Some" /\ info_ret.of.data.layout = "DenseNode") =>
        /\ info_ret.ret.timestamp = InfoSum(InfoSource.timestamp)
        /\ info_ret.ret.changeset = InfoSum(InfoSource.changeset)
        /\ info_ret.ret.uid = InfoSum(InfoSource.uid)
        /\ info_ret.ret.user_sid = InfoSum(InfoSource.user_sid)
        /\ info_ret.of.index < Len(InfoSource.version)
              => info_ret.ret.version.value = InfoSource.version[info_ret.of.index + 1]
        /\ info_ret.of.index < Len(InfoSource.visible)
              => info_ret.ret.visible.value = InfoSource.visible[info_ret.of.index + 1]

\* the dense nodes returned so far from the group at place gi
DenseFrom(gi) == {k \in 1..Len(out) : IsDenseNode(out[k]) /\ out[k].data.group = gi}

\* the length of the shortest of the arrays id, lat and lon
Shortest(dense) == Min(Len(dense.id), Min(Len(dense.lat), Len(dense.lon)))

\* C21: a dense group whose id, lat and lon differ in length yields as many dense
\* nodes as its shortest array holds and next does not fail; a denseinfo array that
\* ends before the node's index makes that field of info None.
C21_ShortestArray ==
    /\ pc # "panicked"
    /\ last = RetNone =>
          \A gi \in 0..(Len(groups) - 1) :
              (At(groups, gi).dense.is_some /\ At(groups, gi).nodes = <<>>)
                  => Cardinality(DenseFrom(gi)) = Shortest(At(groups, gi).dense)
    /\ (info_ret.tag = "Some" /\ info_ret.of.data.layout = "DenseNode") =>
          /\ ~Has(InfoSource.version, info_ret.of.index) => info_ret.ret.version = OptNone
          /\ ~Has(InfoSource.timestamp, info_ret.of.index) => info_ret.ret.timestamp = OptNone
          /\ ~Has(InfoSource.changeset, info_ret.of.index) => info_ret.ret.changeset = OptNone
          /\ ~Has(InfoSource.uid, info_ret.of.index) => info_ret.ret.uid = OptNone
          /\ ~Has(InfoSource.user_sid, info_ret.of.index) => info_ret.ret.user_sid = OptNone
          /\ ~Has(InfoSource.visible, info_ret.of.index) => info_ret.ret.visible = OptNone

\* C22: whenever the group index advances, for any block and filter, the dense
\* state the iterator goes on with is (0, 0, 0, 0).
C22_DenseReset ==
    [][group_pos' # group_pos =>
          dense_state' = [id |-> 0, lat |-> 0, lon |-> 0, kv_pos |-> 0]]_vars

\* a dense group that returned a node has been left and the dense state is zero again
C22_Witness ==
    /\ group_pos >= 1
    /\ dense_state = [id |-> 0, lat |-> 0, lon |-> 0, kv_pos |-> 0]
    /\ \E k \in 1..Len(out) :
          /\ IsDenseNode(out[k])
          /\ out[k].data.group = group_pos - 1
          /\ out[k].id # 0
          /\ out[k].data.kv_pairs # <<>>

\* the kind of entity the first selected non-empty category of a group holds
FirstCategory(g) ==
    LET b == Branch(g, filter)
    IN IF b = "nodes" THEN "Node" ELSE IF b = "dense" THEN "DenseNode"
       ELSE IF b = "ways" THEN "Way" ELSE IF b = "relations" THEN "Relation"
       ELSE "ChangeSet"

\* C23: the first entity returned from any group is the entry at index 0 of the
\* first selected non-empty category of that group, however many entities the
\* groups before it held.
C23_GroupsIndependent ==
    \A k \in 1..Len(out) :
        (k = 1 \/ out[k - 1].data.group # out[k].data.group) =>
            /\ out[k].index = 0
            /\ out[k].data.layout = FirstCategory(At(groups, out[k].data.group))

\* C24: for any keys_vals stream the kv cursor never exceeds the length of the
\* stream, so taking a dense node's tag slice never reaches outside the stream
\* and next never fails.
C24_CursorInRange ==
    /\ pc # "panicked"
    /\ (HasGroup /\ Branch(group, filter) = "dense")
          => dense_state.kv_pos <= Len(group.dense.keys_vals)

\* a pass of the loop ends the call or adds one to the group index, and the kv
\* cursor does not go back within a group
PassProgress ==
    /\ pc = "loop" => (pc' # "loop" \/ group_pos' = group_pos + 1)
    /\ group_pos' = group_pos => dense_state'.kv_pos >= dense_state.kv_pos

\* the entities returned and the groups left behind are no more than the block holds
StepsBounded == Len(out) + group_pos <= BlockSize(groups) + Len(groups)

====
